---- MODULE Spec2Model ----
(***************************************************************************)
(* Conway's Game of Life (src/game.js): the simulation engine              *)
(* (countNeighbors, nextGeneration), the requestAnimationFrame scheduler   *)
(* (animate, start, pause, step), the cell-editing handlers, the           *)
(* localStorage snapshot store (saveGame, loadGame, deleteGame) and the    *)
(* debounced window-resize handler.                                        *)
(*                                                                         *)
(* Coordinates are the code's 0-based x (column) and y (row); a grid is a  *)
(* sequence of rows, so the code's grid[y][x] is grid[y + 1][x + 1] here.  *)
(* Grid sizes are scaled down from the code's 80 x 50 default.             *)
(***************************************************************************)
EXTENDS Integers, Sequences, FiniteSets, TLC

\* ------------------------------------------------------------------ bounds
\* generation is an unbounded counter in the code; steps stop at MaxGen.
MaxGen == 2
\* The clock (performance.now(), rAF timestamps, Date) advances in ticks of
\* TickMs milliseconds, MaxTicks times.
MaxTicks == 2
TickMs == 500
\* Largest grid side, and number of steps, of the engine's specification.
PureMax == 3
PureSteps == 1
\* SpecBlock: the largest grid width and height.
BlockMax == 4
\* Steps stop at StoreMaxGen in the snapshot store's specification.
StoreMaxGen == 1

\* ------------------------------------------------------- program constants
\* CONFIG.defaultSpeed
defaultSpeed == 5
\* CONFIG.minSpeed
minSpeed == 1
\* The delay of init's auto-start timer, in ms.
autoStartDelay == 500
\* The numerator of animate's updateInterval = 1000 / speed.
msPerSecond == 1000

\* ---------------------------------------------------------- JS cell values
\* A cell holds 0 (dead) or 1 (alive). Reading past the end of a row, or a
\* hole left by an assignment past the end of a row, yields undefined;
\* JSON.stringify writes a hole as null and JSON.parse reads null back.
undefined == 2
null == 3

\* The number a JS value contributes to "count += value": null converts to
\* 0; undefined converts to NaN, which isNaN reports.
isNaN(v) == v = undefined
ToNumber(v) == IF v = null THEN 0 ELSE v

\* ----------------------------------------------------------------- inputs
\* (gridWidth, gridHeight) pairs initCanvas can compute from the window
\* size, standing for the code's Math.floor(innerWidth * k / cellSize).
DimSet == {<<1, 1>>, <<1, 2>>, <<3, 1>>}
\* The pairs of the scheduler's and of the snapshot store's specification.
CopyDims == {<<1, 1>>}
NamesDims == {<<3, 1>>}
NamesCells == {<<0, 0>>, <<2, 0>>}
\* Contents of the save-name input that name two different snapshots.
NamesRaw == {<<"a">>, <<" ", "z">>}
LiveDims == {<<1, 2>>}
ListDims == {<<1, 2>>}
ResetDims == {<<1, 1>>, <<1, 2>>}
SchedDims == {<<1, 1>>, <<1, 2>>, <<2, 1>>}
StoreDims == {<<1, 1>>, <<3, 1>>}
\* The (x, y) cells clicked in the snapshot store's specification: the
\* third cell of the first row, and one left of the canvas.
StoreCells == {<<2, 0>>, <<-1, 0>>}
\* Values of the speed slider.
SpeedSet == {minSpeed, defaultSpeed}
\* Contents of the save-name input: empty, blank, and a name with padding.
RawNames == {<<>>, <<" ">>, <<" ", "a", " ">>}
\* Names passed to loadGame and deleteGame.
NameSet == {<<"a">>, <<"z">>}

VARIABLES
    CONFIG,           \* [gridWidth, gridHeight]
    grid,             \* the live grid
    isRunning,
    generation,
    animationId,      \* 0 for null, else the id of the last requested frame
    speed,
    lastUpdateTime,
    armed,            \* ids of the animate callbacks the browser will run
    now,              \* the clock, in ms since page load
    autoStartPending, \* init's setTimeout(start, 500) has not fired yet
    localStorage,     \* the 'conwayGameSaves' item: [written, games]
    toast,            \* the toast element: [type, msg] of the last showToast
    uncaught,         \* the last handler ended in an uncaught TypeError
    savedLive,        \* history: the live grid and generation at each save
    savedGamesList    \* the names listed in the load modal, top to bottom

vars == <<CONFIG, grid, isRunning, generation, animationId, speed,
          lastUpdateTime, armed, now, autoStartPending, localStorage, toast,
          uncaught, savedLive, savedGamesList>>

\* ------------------------------------------------------------ grid helpers
Config(w, h) == [gridWidth |-> w, gridHeight |-> h]

\* grid[y] is undefined: indexing it throws a TypeError.
RowMissing(g, y) == y + 1 > Len(g)

\* grid[y][x] for an existing row y.
Cell(g, y, x) == IF x + 1 > Len(g[y + 1]) THEN undefined ELSE g[y + 1][x + 1]

\* row[x] = v, which pads the row with holes when x is past its end.
SetInRow(row, x, v) ==
    IF x + 1 <= Len(row)
    THEN [row EXCEPT ![x + 1] = v]
    ELSE row \o [k \in 1..(x - Len(row)) |-> undefined] \o <<v>>

\* grid[y][x] = v for an existing row y.
SetCell(g, y, x, v) == [g EXCEPT ![y + 1] = SetInRow(g[y + 1], x, v)]

createEmptyGrid(C) ==
    [y \in 1..C.gridHeight |-> [x \in 1..C.gridWidth |-> 0]]

\* Every grid createRandomGrid can return: Math.random decides each cell.
RandomGrids(C) == [1..C.gridHeight -> [1..C.gridWidth -> {0, 1}]]

\* ------------------------------------------------------ simulation engine
\* What countNeighbors produces: a number, NaN (an undefined was added to
\* the count), or an uncaught TypeError (a missing row was indexed).
Number(n) == [kind |-> "number", n |-> n]
NaN == [kind |-> "NaN", n |-> 0]
TypeError == [kind |-> "TypeError", n |-> 0]

\* The (i, j) pairs of countNeighbors' two loops, in loop order, without
\* the skipped (0, 0): i offsets the row, j the column.
Offsets == << <<-1, -1>>, <<-1, 0>>, <<-1, 1>>, <<0, -1>>, <<0, 1>>,
              <<1, -1>>, <<1, 0>>, <<1, 1>> >>

\* A neighbour coordinate clamped to the edge instead of wrapped.
Wrap_clamped(coord, delta, dimension) ==
    IF coord + delta < 0 THEN 0
    ELSE IF coord + delta >= dimension THEN dimension - 1
    ELSE coord + delta

\* The wrapped coordinate (coord + delta + dimension) % dimension.
Wrap(coord, delta, dimension) == (coord + delta + dimension) % dimension

\* The row and column countNeighbors reads at the k-th pair of Offsets.
newY(y, C, k) == Wrap(y, Offsets[k][1], C.gridHeight)
newX(x, C, k) == Wrap(x, Offsets[k][2], C.gridWidth)

\* count after the first k additions "count += grid[newY][newX]", every
\* value added being a number (null adds 0).
RECURSIVE countFrom(_, _, _, _, _)
countFrom(g, x, y, C, k) ==
    IF k = 0 THEN 0
    ELSE countFrom(g, x, y, C, k - 1)
            + ToNumber(Cell(g, newY(y, C, k), newX(x, C, k)))

\* countNeighbors: a missing row throws; otherwise one undefined makes the
\* count NaN for good; otherwise the count is the sum of the 8 reads.
countNeighbors(g, x, y, C) ==
    IF \E k \in DOMAIN Offsets : RowMissing(g, newY(y, C, k)) THEN TypeError
    ELSE IF \E k \in DOMAIN Offsets :
                isNaN(Cell(g, newY(y, C, k), newX(x, C, k))) THEN NaN
    ELSE Number(countFrom(g, x, y, C, Len(Offsets)))

\* Conway's rules with survival on exactly 2 neighbours only.
conwayRule_survive2(cell, neighbors) ==
    IF cell = 1 /\ neighbors.kind = "number" /\ neighbors.n = 2 THEN 1
    ELSE IF cell = 0 /\ neighbors.kind = "number" /\ neighbors.n = 3 THEN 1
    ELSE 0

\* Conway's rules as nextGeneration's if / else if / else writes them; the
\* === comparisons are false for NaN, undefined and null.
conwayRule(cell, neighbors) ==
    IF cell = 1 /\ neighbors.kind = "number" /\ neighbors.n \in {2, 3} THEN 1
    ELSE IF cell = 0 /\ neighbors.kind = "number" /\ neighbors.n = 3 THEN 1
    ELSE 0

\* nextGeneration throws when countNeighbors or the read of grid[y][x]
\* indexes a missing row; the loops then stop before grid is assigned.
nextGenerationThrows(g, C) ==
    \E y \in 0..(C.gridHeight - 1), x \in 0..(C.gridWidth - 1) :
        RowMissing(g, y) \/ countNeighbors(g, x, y, C).kind = "TypeError"

\* The newGrid nextGeneration fills: createEmptyGrid() with every cell
\* computed from the old grid.
newGridOf(g, C) ==
    [y \in 1..C.gridHeight |->
        [x \in 1..C.gridWidth |->
            conwayRule(Cell(g, y - 1, x - 1), countNeighbors(g, x - 1, y - 1, C))]]

\* The generation after "generation++".
bumpGeneration(gen) == gen + 1

\* nextGeneration(): what it leaves in grid and generation, and whether it
\* threw (leaving both as they were).
nextGeneration(g, gen, C) ==
    IF nextGenerationThrows(g, C)
    THEN [threw |-> TRUE, grid |-> g, generation |-> gen]
    ELSE [threw |-> FALSE, grid |-> newGridOf(g, C),
          generation |-> bumpGeneration(gen)]

\* renderGrid() and updateStats() read grid[y][x] for every CONFIG cell and
\* throw a TypeError on a missing row; they change no state.
renderGridThrows(g, C) == \E y \in 0..(C.gridHeight - 1) : RowMissing(g, y)

\* -------------------------------------------------------------- scheduler
\* requestAnimationFrame returns an id no pending callback has.
FreshId(queue) == CHOOSE i \in 1..(Cardinality(queue) + 1) : i \notin queue

cancelAnimationFrame(queue, id) == queue \ {id}

\* pause() without its cancelAnimationFrame call.
pauseArmed_noCancel == armed

\* The callbacks still armed after pause(): pause() cancels animationId
\* when it was running and animationId is truthy.
pauseArmed ==
    IF isRunning /\ animationId # 0
    THEN cancelAnimationFrame(armed, animationId)
    ELSE armed

\* pause() without its "isRunning = false".
pauseRunning_keep == isRunning

\* isRunning after pause().
pauseRunning == FALSE

\* pause(): its effect on the scheduler's variables.
pause ==
    /\ isRunning' = pauseRunning
    /\ armed' = pauseArmed
    /\ UNCHANGED animationId

\* start() without its "if (isRunning) return".
startReturns_never == FALSE

\* start() returns at once when the scheduler is already running.
startReturns == isRunning

\* lastUpdateTime after a start() that was not already running.
startTime == now

\* start(): its effect on the scheduler's variables.
start ==
    IF startReturns
    THEN UNCHANGED <<isRunning, lastUpdateTime, animationId, armed>>
    ELSE /\ isRunning' = TRUE
         /\ lastUpdateTime' = startTime
         /\ animationId' = FreshId(armed)
         /\ armed' = armed \cup {FreshId(armed)}

\* animate's throttle: timestamp - lastUpdateTime >= 1000 / speed.
updateDue(timestamp, last, spd) == (timestamp - last) * spd >= msPerSecond

\* --------------------------------------------------------- snapshot store
Toast(type, msg) == [type |-> type, msg |-> msg]

\* String.prototype.trim on a sequence of characters.
RECURSIVE trimStart(_)
trimStart(s) == IF s # <<>> /\ Head(s) = " " THEN trimStart(Tail(s)) ELSE s

RECURSIVE trimEnd(_)
trimEnd(s) ==
    IF s # <<>> /\ s[Len(s)] = " " THEN trimEnd(SubSeq(s, 1, Len(s) - 1)) ELSE s

\* The input's value used without trimming.
trim_none(s) == s

trim(s) == trimEnd(trimStart(s))

\* JSON.stringify followed by JSON.parse: a hole or undefined in an array
\* comes back as null.
jsonValue(v) == IF v = undefined THEN null ELSE v

jsonGrid(g) ==
    [y \in DOMAIN g |-> [x \in DOMAIN g[y] |-> jsonValue(g[y][x])]]

\* getSavedGames() if every stored snapshot held the live grid by reference.
getSavedGames_live ==
    IF localStorage.written
    THEN [i \in DOMAIN localStorage.games |->
            [localStorage.games[i] EXCEPT !.grid = grid]]
    ELSE <<>>

\* getSavedGames(): the parsed item, or {} when the item was never written.
\* An object's keys keep their insertion order, so it is a sequence.
getSavedGames == IF localStorage.written THEN localStorage.games ELSE <<>>

\* The position of savedGames[name], or 0 when there is none.
IndexOf(games, name) ==
    IF \E i \in DOMAIN games : games[i].name = name
    THEN CHOOSE i \in DOMAIN games : games[i].name = name
    ELSE 0

\* savedGames[name] = gameData: replaces in place or appends a new key.
putGame(games, name, gameData) ==
    IF IndexOf(games, name) # 0
    THEN [games EXCEPT ![IndexOf(games, name)] = gameData]
    ELSE Append(games, gameData)

\* delete savedGames[name]
removeGame(games, name) ==
    LET keep == {i \in DOMAIN games : games[i].name # name}
        RECURSIVE pick(_)
        pick(i) == IF i > Len(games) THEN <<>>
                   ELSE (IF i \in keep THEN <<games[i]>> ELSE <<>>) \o pick(i + 1)
    IN  pick(1)

\* localStorage.setItem('conwayGameSaves', JSON.stringify(savedGames))
setItem(games) == [written |-> TRUE, games |-> games]

\* The gameData object of saveGame as JSON.stringify writes it.
gameDataOf(name, g, gen, date, C) ==
    [name |-> name, grid |-> jsonGrid(g), generation |-> gen, date |-> date,
     gridWidth |-> C.gridWidth, gridHeight |-> C.gridHeight]

\* loadGame's dimension check.
dimensionsDiffer(gameData, C) ==
    gameData.gridWidth # C.gridWidth \/ gameData.gridHeight # C.gridHeight

\* Object.keys(savedGames): the names in insertion order.
keys(games) == [i \in DOMAIN games |-> games[i].name]

\* The date of savedGames[name].
dateOf(games, name) == games[IndexOf(games, name)].date

\* renderSavedGames' sort without its comparator: insertion order.
insertByDate_unsorted(games, sorted, name) == Append(sorted, name)

\* One name placed into a list already sorted newest first: after every
\* name that is not older (the sort is stable).
insertByDate(games, sorted, name) ==
    LET before == {i \in DOMAIN sorted :
                    dateOf(games, sorted[i]) >= dateOf(games, name)}
        n == Cardinality(before)
    IN  SubSeq(sorted, 1, n) \o <<name>> \o SubSeq(sorted, n + 1, Len(sorted))

\* gameNames.sort((a, b) => date(b) - date(a)) on the first k names.
RECURSIVE sortByDate(_, _, _)
sortByDate(games, names, k) ==
    IF k = 0 THEN <<>>
    ELSE insertByDate(games, sortByDate(games, names, k - 1), names[k])

\* renderSavedGames(): the names of the items it leaves in the list.
renderSavedGames(games) == sortByDate(games, keys(games), Len(keys(games)))

\* History of saves: the live grid and generation when name was saved.
remember(h, name, g, gen) ==
    [n \in DOMAIN h \cup {name} |->
        IF n = name THEN [grid |-> g, generation |-> gen] ELSE h[n]]

forget(h, name) == [n \in DOMAIN h \ {name} |-> h[n]]

\* ---------------------------------------------------------------- windows
\* CONFIG as the script declares it, scaled down from 80 x 50.
defaultConfig == Config(1, 1)

\* A window as initCanvas sees it: wide (innerWidth >= 1024), or narrower
\* with the gridWidth and gridHeight its branch computes.
Windows(dims) ==
    {[wide |-> TRUE, gridWidth |-> 0, gridHeight |-> 0]} \cup
    {[wide |-> FALSE, gridWidth |-> d[1], gridHeight |-> d[2]] : d \in dims}

\* initCanvas(): CONFIG afterwards. A wide window leaves CONFIG as it is.
initCanvas(C, window) ==
    IF window.wide THEN C ELSE Config(window.gridWidth, window.gridHeight)

\* Cell coordinates a click or touch can compute: one outside each edge of
\* the largest canvas, and every cell inside.
Coords(dims, k) ==
    LET top == CHOOSE m \in {d[k] : d \in dims} : \A d \in dims : d[k] <= m
    IN  (-1)..top

inBounds(x, y, C) ==
    x >= 0 /\ x < C.gridWidth /\ y >= 0 /\ y < C.gridHeight

\* ------------------------------------------------------------------- init
\* The state after the script ran init(): initCanvas for the window, a
\* random grid, and the auto-start timer pending.
InitState(C, g) ==
    /\ CONFIG = C
    /\ grid = g
    /\ isRunning = FALSE
    /\ generation = 0
    /\ animationId = 0
    /\ speed = defaultSpeed
    /\ lastUpdateTime = 0
    /\ armed = {}
    /\ now = 0
    /\ autoStartPending = TRUE
    /\ localStorage = [written |-> FALSE, games |-> <<>>]
    /\ toast = Toast("", "")
    /\ uncaught = FALSE
    /\ savedLive = <<>>
    /\ savedGamesList = <<>>

\* init() with every grid createRandomGrid can return.
InitOf(dims) ==
    \E w \in Windows(dims) :
        \E g \in RandomGrids(initCanvas(defaultConfig, w)) :
            InitState(initCanvas(defaultConfig, w), g)

Init == InitOf(DimSet)

\* --------------------------------------------------------------- handlers
\* init's setTimeout callback: start() and a toast, 500 ms after init.
autoStart ==
    /\ autoStartPending
    /\ now >= autoStartDelay
    /\ autoStartPending' = FALSE
    /\ start
    /\ toast' = Toast("success", "iniciado")
    /\ uncaught' = FALSE
    /\ UNCHANGED <<savedGamesList, CONFIG, grid, generation, speed, now, localStorage, savedLive>>

togglePlayPause ==
    /\ IF isRunning THEN pause /\ UNCHANGED lastUpdateTime ELSE start
    /\ uncaught' = FALSE
    /\ UNCHANGED <<savedGamesList, CONFIG, grid, generation, speed, now, autoStartPending,
                   localStorage, toast, savedLive>>

\* step(): pause(), then nextGeneration(), whose TypeError ends the handler.
step(maxGen) ==
    LET r == nextGeneration(grid, generation, CONFIG)
    IN  /\ r.generation <= maxGen
        /\ pause
        /\ grid' = r.grid
        /\ generation' = r.generation
        /\ uncaught' = r.threw
        /\ UNCHANGED <<savedGamesList, CONFIG, speed, lastUpdateTime, now, autoStartPending,
                       localStorage, toast, savedLive>>

clear ==
    /\ pause
    /\ grid' = createEmptyGrid(CONFIG)
    /\ generation' = 0
    /\ toast' = Toast("success", "limpiado")
    /\ uncaught' = FALSE
    /\ UNCHANGED <<savedGamesList, CONFIG, speed, lastUpdateTime, now, autoStartPending,
                   localStorage, savedLive>>

randomize(g) ==
    /\ g \in RandomGrids(CONFIG)
    /\ pause
    /\ grid' = g
    /\ generation' = 0
    /\ toast' = Toast("success", "aleatorio")
    /\ uncaught' = FALSE
    /\ UNCHANGED <<savedGamesList, CONFIG, speed, lastUpdateTime, now, autoStartPending,
                   localStorage, savedLive>>

updateSpeed(v) ==
    /\ speed' = v
    /\ uncaught' = FALSE
    /\ UNCHANGED <<savedGamesList, CONFIG, grid, isRunning, generation, animationId,
                   lastUpdateTime, armed, now, autoStartPending, localStorage,
                   toast, savedLive>>

\* A click or touch inside CONFIG's bounds throws when it indexes a missing
\* row, or when the renderGrid() after its write does.
editThrows(g, x, y, C) == inBounds(x, y, C) /\ renderGridThrows(g, C)

\* The grid after a click at cell (x, y): the cell flips when (x, y) is
\* inside CONFIG's bounds; a missing row throws before anything is written.
clickedGrid(g, x, y, C) ==
    IF inBounds(x, y, C) /\ ~RowMissing(g, y)
    THEN SetCell(g, y, x, IF Cell(g, y, x) = 1 THEN 0 ELSE 1)
    ELSE g

handleCanvasClick(x, y) ==
    /\ grid' = clickedGrid(grid, x, y, CONFIG)
    /\ uncaught' = editThrows(grid, x, y, CONFIG)
    /\ UNCHANGED <<savedGamesList, CONFIG, isRunning, generation, animationId, speed,
                   lastUpdateTime, armed, now, autoStartPending, localStorage,
                   toast, savedLive>>

\* The grid after a touch at cell (x, y): the cell is set alive.
touchedGrid(g, x, y, C) ==
    IF inBounds(x, y, C) /\ ~RowMissing(g, y) THEN SetCell(g, y, x, 1) ELSE g

handleTouchMove(x, y) ==
    /\ grid' = touchedGrid(grid, x, y, CONFIG)
    /\ uncaught' = editThrows(grid, x, y, CONFIG)
    /\ UNCHANGED <<savedGamesList, CONFIG, isRunning, generation, animationId, speed,
                   lastUpdateTime, armed, now, autoStartPending, localStorage,
                   toast, savedLive>>

\* Whether saveGame rejects the trimmed name ("if (!name)").
nameRejected(name) == name = <<>>

saveGame(raw) ==
    LET name == trim(raw)
    IN  IF nameRejected(name)
        THEN /\ toast' = Toast("error", "ingresa un nombre")
             /\ UNCHANGED <<localStorage, savedLive>>
        ELSE /\ localStorage' =
                    setItem(putGame(getSavedGames, name,
                                    gameDataOf(name, grid, generation, now, CONFIG)))
             /\ savedLive' = remember(savedLive, name, grid, generation)
             /\ toast' = Toast("success", "guardada")

saveGameClick(raw) ==
    /\ saveGame(raw)
    /\ uncaught' = FALSE
    /\ UNCHANGED <<savedGamesList, CONFIG, grid, isRunning, generation, animationId, speed,
                   lastUpdateTime, armed, now, autoStartPending>>

\* loadGame's outcome for a name: "missing", "dimensions", or "loaded".
loadOutcome(name) ==
    LET i == IndexOf(getSavedGames, name)
    IN  IF i = 0 THEN "missing"
        ELSE IF dimensionsDiffer(getSavedGames[i], CONFIG) THEN "dimensions"
        ELSE "loaded"

loadGame(name) ==
    LET i == IndexOf(getSavedGames, name)
    IN  /\ CASE loadOutcome(name) = "missing" ->
                    /\ toast' = Toast("error", "no se pudo cargar")
                    /\ uncaught' = FALSE
                    /\ UNCHANGED <<grid, isRunning, generation, animationId, armed>>
             [] loadOutcome(name) = "dimensions" ->
                    /\ toast' = Toast("error", "dimensiones diferentes")
                    /\ uncaught' = FALSE
                    /\ UNCHANGED <<grid, isRunning, generation, animationId, armed>>
             [] OTHER ->
                    /\ pause
                    /\ grid' = getSavedGames[i].grid
                    /\ generation' = getSavedGames[i].generation
                    /\ uncaught' = renderGridThrows(grid', CONFIG)
                    /\ toast' = IF uncaught'
                                THEN toast
                                ELSE Toast("success", "cargada")
        /\ UNCHANGED <<savedGamesList, CONFIG, speed, lastUpdateTime, now, autoStartPending,
                       localStorage, savedLive>>

\* The toast deleteGame shows once the user confirmed.
deleteToast(games, name) == Toast("success", "eliminada")

deleteGame(name, confirmed) ==
    /\ IF confirmed
       THEN /\ localStorage' = setItem(removeGame(getSavedGames, name))
            /\ savedLive' = forget(savedLive, name)
            /\ toast' = deleteToast(getSavedGames, name)
            /\ savedGamesList' =
                    renderSavedGames(removeGame(getSavedGames, name))
       ELSE UNCHANGED <<localStorage, savedLive, toast, savedGamesList>>
    /\ uncaught' = FALSE
    /\ UNCHANGED <<CONFIG, grid, isRunning, generation, animationId, speed,
                   lastUpdateTime, armed, now, autoStartPending>>

\* showLoadModal(): renderSavedGames() and the modal opens.
showLoadModal ==
    /\ savedGamesList' = renderSavedGames(getSavedGames)
    /\ uncaught' = FALSE
    /\ UNCHANGED <<CONFIG, grid, isRunning, generation, animationId, speed,
                   lastUpdateTime, armed, now, autoStartPending, localStorage,
                   toast, savedLive>>

\* The debounced resize callback: pause(), initCanvas(), renderGrid().
resize(window) ==
    /\ pause
    /\ CONFIG' = initCanvas(CONFIG, window)
    /\ uncaught' = renderGridThrows(grid, CONFIG')
    /\ UNCHANGED <<savedGamesList, grid, generation, speed, lastUpdateTime, now,
                   autoStartPending, localStorage, toast, savedLive>>

\* The browser runs the armed callback id with the frame's timestamp.
animate(id, maxGen) ==
    LET queue == armed \ {id}
        due == updateDue(now, lastUpdateTime, speed)
        r == nextGeneration(grid, generation, CONFIG)
    IN  /\ id \in armed
        /\ IF ~isRunning
           THEN /\ armed' = queue
                /\ uncaught' = FALSE
                /\ UNCHANGED <<grid, generation, lastUpdateTime, animationId>>
           ELSE IF due /\ r.threw
           THEN /\ armed' = queue
                /\ uncaught' = TRUE
                /\ UNCHANGED <<grid, generation, lastUpdateTime, animationId>>
           ELSE /\ due => r.generation <= maxGen
                /\ uncaught' = FALSE
                /\ grid' = IF due THEN r.grid ELSE grid
                /\ generation' = IF due THEN r.generation ELSE generation
                /\ lastUpdateTime' = IF due THEN now ELSE lastUpdateTime
                /\ animationId' = FreshId(queue)
                /\ armed' = queue \cup {FreshId(queue)}
        /\ UNCHANGED <<savedGamesList, CONFIG, isRunning, speed, now, autoStartPending,
                       localStorage, toast, savedLive>>

\* Time passes between handlers.
tick ==
    /\ now + TickMs <= MaxTicks * TickMs
    /\ now' = now + TickMs
    /\ UNCHANGED <<savedGamesList, CONFIG, grid, isRunning, generation, animationId, speed,
                   lastUpdateTime, armed, autoStartPending, localStorage,
                   toast, uncaught, savedLive>>

\* ---------------------------------------------------------- specification
\* The whole page: every handler, timer and callback.
Next ==
    \/ autoStart
    \/ togglePlayPause
    \/ step(MaxGen)
    \/ clear
    \/ \E g \in RandomGrids(CONFIG) : randomize(g)
    \/ \E v \in SpeedSet : updateSpeed(v)
    \/ \E x \in Coords(DimSet, 1), y \in Coords(DimSet, 2) : handleCanvasClick(x, y)
    \/ \E x \in Coords(DimSet, 1), y \in Coords(DimSet, 2) : handleTouchMove(x, y)
    \/ \E raw \in RawNames : saveGameClick(raw)
    \/ \E name \in NameSet : loadGame(name)
    \/ \E name \in NameSet, confirmed \in BOOLEAN : deleteGame(name, confirmed)
    \/ showLoadModal
    \/ \E w \in Windows(DimSet) : resize(w)
    \/ \E id \in armed : animate(id, MaxGen)
    \/ tick

Spec == Init /\ [][Next]_vars

\* The page with the save, load and delete controls left alone: the
\* scheduler, the engine, cell editing and resizing.
InitSched == InitOf(SchedDims)

NextSched ==
    \/ autoStart
    \/ togglePlayPause
    \/ step(MaxGen)
    \/ clear
    \/ \E g \in RandomGrids(CONFIG) : randomize(g)
    \/ \E v \in SpeedSet : updateSpeed(v)
    \/ \E x \in Coords(SchedDims, 1), y \in Coords(SchedDims, 2) :
            handleCanvasClick(x, y)
    \/ \E w \in Windows(SchedDims) : resize(w)
    \/ \E id \in armed : animate(id, MaxGen)
    \/ tick

SpecSched == InitSched /\ [][NextSched]_vars

\* The scheduler under the browser's scheduling: time keeps passing and an
\* armed callback is run; the user starts, pauses, steps, changes the speed
\* and resizes the window.
InitLive == InitOf(LiveDims)

NextLive ==
    \/ autoStart
    \/ togglePlayPause
    \/ step(MaxGen)
    \/ \E v \in SpeedSet : updateSpeed(v)
    \/ \E w \in Windows(LiveDims) : resize(w)
    \/ \E id \in armed : animate(id, MaxGen)
    \/ tick

SpecLive ==
    /\ InitLive
    /\ [][NextLive]_vars
    /\ WF_vars(tick)
    /\ WF_vars(\E id \in armed : animate(id, MaxGen))

\* The page before its auto-start timer fires (now stays 0, so no save
\* has a later date than another): the snapshot store with the controls
\* that change what a snapshot is compared with.
InitStore == InitOf(StoreDims)

NextStore ==
    \/ togglePlayPause
    \/ step(StoreMaxGen)
    \/ clear
    \/ \E c \in StoreCells : handleCanvasClick(c[1], c[2])
    \/ \E raw \in RawNames : saveGameClick(raw)
    \/ \E name \in NameSet : loadGame(name)
    \/ \E name \in NameSet, confirmed \in BOOLEAN : deleteGame(name, confirmed)
    \/ \E w \in Windows(StoreDims) : resize(w)

SpecStore == InitStore /\ [][NextStore]_vars

\* The engine alone: init() on every window up to PureMax cells wide and
\* 1 to 3 cells high with every random grid, then single steps.
PureHeights == {1, 2, 3}

InitPure == InitOf((1..PureMax) \X PureHeights)

NextPure == step(PureSteps)

SpecPure == InitPure /\ [][NextPure]_vars

\* The cells (x, y) of the 2 x 2 block whose corner is (bx, by), wrapped
\* across the edges of a CONFIG-sized grid.
BlockCells(C, bx, by) ==
    {<<(bx + i) % C.gridWidth, (by + j) % C.gridHeight>> : i, j \in {0, 1}}

\* The CONFIG-sized grid whose live cells are exactly those of the set.
GridOf(C, cells) ==
    [y \in 1..C.gridHeight |->
        [x \in 1..C.gridWidth |-> IF <<x - 1, y - 1>> \in cells THEN 1 ELSE 0]]

\* The grids createRandomGrid can return whose live cells all lie in one
\* 2 x 2 block: the dead grid, every block, and every part of a block.
BlockGrids(C) ==
    {GridOf(C, cells) :
        cells \in UNION {SUBSET BlockCells(C, bx, by) :
                            bx \in 0..(C.gridWidth - 1),
                            by \in 0..(C.gridHeight - 1)}}

\* The engine on still lifes: init() on every window up to BlockMax x
\* BlockMax with the grids of BlockGrids, then single steps.
InitBlock ==
    \E w \in Windows((1..BlockMax) \X (1..BlockMax)) :
        \E g \in BlockGrids(initCanvas(defaultConfig, w)) :
            InitState(initCanvas(defaultConfig, w), g)

NextBlock == step(PureSteps)

SpecBlock == InitBlock /\ [][NextBlock]_vars

\* The resets: the scheduler with clear, randomize, save and load, on a
\* window that can be resized.
InitReset == InitOf(ResetDims)

NextReset ==
    \/ autoStart
    \/ togglePlayPause
    \/ clear
    \/ \E g \in RandomGrids(CONFIG) : randomize(g)
    \/ \E raw \in RawNames : saveGameClick(raw)
    \/ \E name \in NameSet : loadGame(name)
    \/ \E w \in Windows(ResetDims) : resize(w)
    \/ \E id \in armed : animate(id, StoreMaxGen)
    \/ tick

SpecReset == InitReset /\ [][NextReset]_vars

\* The snapshot store next to everything that changes the live grid: the
\* scheduler, step, clear, randomize and cell editing, with save, load and
\* delete, on one window that is not resized.
InitCopy == InitOf(CopyDims)

NextCopy ==
    \/ togglePlayPause
    \/ step(StoreMaxGen)
    \/ clear
    \/ \E g \in RandomGrids(CONFIG) : randomize(g)
    \/ \E x \in Coords(CopyDims, 1), y \in Coords(CopyDims, 2) :
            handleCanvasClick(x, y)
    \/ \E x \in Coords(CopyDims, 1), y \in Coords(CopyDims, 2) :
            handleTouchMove(x, y)
    \/ \E raw \in RawNames : saveGameClick(raw)
    \/ \E name \in NameSet : loadGame(name)
    \/ \E name \in NameSet, confirmed \in BOOLEAN : deleteGame(name, confirmed)
    \/ \E id \in armed : animate(id, StoreMaxGen)
    \/ tick

SpecCopy == InitCopy /\ [][NextCopy]_vars

\* Saves and deletes under two names, with the controls that change what
\* is saved: step, clicks, touches and resizing.
InitNames == InitOf(NamesDims)

NextNames ==
    \/ step(StoreMaxGen)
    \/ \E c \in NamesCells : handleCanvasClick(c[1], c[2])
    \/ \E c \in NamesCells : handleTouchMove(c[1], c[2])
    \/ \E raw \in NamesRaw : saveGameClick(raw)
    \/ \E name \in NameSet, confirmed \in BOOLEAN : deleteGame(name, confirmed)
    \/ \E w \in Windows(NamesDims) : resize(w)

SpecNames == InitNames /\ [][NextNames]_vars

\* The load modal's list: saves and deletes under two names at different
\* times, and the modal being opened.
InitList == InitOf(ListDims)

NextList ==
    \/ \E raw \in NamesRaw : saveGameClick(raw)
    \/ \E name \in NameSet, confirmed \in BOOLEAN : deleteGame(name, confirmed)
    \/ showLoadModal
    \/ tick

SpecList == InitList /\ [][NextList]_vars

\* ================================================================= claims
\* The grid has h rows of w cells each.
HasDims(g, w, h) == Len(g) = h /\ \A y \in DOMAIN g : Len(g[y]) = w

\* Two grids have the same number of rows and the same row lengths.
SameDims(g1, g2) ==
    Len(g1) = Len(g2) /\ \A y \in DOMAIN g1 : Len(g1[y]) = Len(g2[y])

\* The transition is an animate callback whose throttle lets it step.
animateSteps ==
    \E id \in armed :
        animate(id, MaxGen) /\ isRunning /\ updateDue(now, lastUpdateTime, speed)

\* C1: while isRunning is false no animate callback is armed, and an animate
\* callback that fires while isRunning is false changes neither the grid nor
\* the generation and arms no callback.
C1_PausedNoStep ==
    /\ [](~isRunning => armed = {})
    /\ [][(~isRunning /\ \E id \in armed : animate(id, MaxGen))
            => (UNCHANGED <<grid, generation>> /\ armed' \subseteq armed)]_vars

\* C1 witness: paused after the scheduler ran and stepped.
C1_Witness ==
    ~isRunning /\ animationId # 0 /\ generation > 0 /\ lastUpdateTime > 0

\* C2: step() leaves the scheduler paused with no armed callback and
\* advances the generation counter by exactly one.
C2_StepOnce ==
    [][step(MaxGen)
        => (isRunning' = FALSE /\ armed' = {} /\ generation' = generation + 1)]_vars

\* C3: nextGeneration() (through step()) replaces the grid with a grid of
\* identical dimensions.
C3_SameDimensions == [][step(MaxGen) => SameDims(grid, grid')]_vars

\* C4: the live grid always has CONFIG.gridHeight rows of CONFIG.gridWidth
\* cells.
C4_GridMatchesConfig == HasDims(grid, CONFIG.gridWidth, CONFIG.gridHeight)

\* C5: every simulation step, by step() or by a scheduler tick, adds exactly
\* one to the generation counter and keeps the grid's dimensions, and the
\* counter is never negative.
C5_StepsCount ==
    /\ [](generation >= 0)
    /\ [][(step(MaxGen) \/ animateSteps)
            => (generation' = generation + 1 /\ SameDims(grid, grid'))]_vars

\* The snapshot stored under a name that is in the store.
Stored(name) == getSavedGames[IndexOf(getSavedGames, name)]

InStore(name) == IndexOf(getSavedGames, name) # 0

\* C6: a load of a name saved earlier, with the configured dimensions the
\* snapshot recorded, leaves the live grid and the generation counter as
\* they were at the save.
C6_RoundTrip ==
    [][\A name \in NameSet :
        (/\ name \in DOMAIN savedLive
         /\ ~dimensionsDiffer(Stored(name), CONFIG)
         /\ loadGame(name))
        => (/\ grid' = savedLive[name].grid
            /\ generation' = savedLive[name].generation)]_vars

\* C7: a load of a snapshot whose stored dimensions differ from the live
\* grid's shows an error toast and leaves the grid, the generation counter
\* and the running state as they were.
C7_MismatchRejected ==
    [][\A name \in NameSet :
        (/\ InStore(name)
         /\ ~HasDims(grid, Stored(name).gridWidth, Stored(name).gridHeight)
         /\ loadGame(name))
        => (/\ toast'.type = "error"
            /\ UNCHANGED <<grid, generation, isRunning>>)]_vars

\* C8: for a name that is not in the store, loadGame shows an error toast
\* and changes neither grid, generation nor running state, and a confirmed
\* deleteGame shows an error toast and leaves the stored games unchanged.
C8_UnknownName ==
    [][\A name \in NameSet :
        ~InStore(name)
        => (/\ loadGame(name)
                => (/\ toast'.type = "error"
                    /\ UNCHANGED <<grid, generation, isRunning>>)
            /\ deleteGame(name, TRUE)
                => (/\ toast'.type = "error"
                    /\ getSavedGames' = getSavedGames))]_vars

\* The input holds nothing but spaces.
Blank(raw) == \A i \in DOMAIN raw : raw[i] = " "

\* C9: saveGame with an empty or blank name shows an error toast and
\* leaves the store, the grid, the generation counter and the running
\* state as they were.
C9_EmptyNameRejected ==
    [][\A raw \in RawNames :
        (Blank(raw) /\ saveGameClick(raw))
        => (/\ toast'.type = "error"
            /\ UNCHANGED <<localStorage, grid, generation, isRunning>>)]_vars

\* C9 witness: the empty-name error was shown while a game was stored, the
\* scheduler was running and a step had been taken.
C9_Witness ==
    /\ toast = Toast("error", "ingresa un nombre")
    /\ Len(getSavedGames) = 1
    /\ isRunning
    /\ generation = 1

\* The 8 offsets (dx, dy) other than (0, 0).
NeighbourOffsets == {d \in {-1, 0, 1} \X {-1, 0, 1} : d # <<0, 0>>}

\* The number of offsets whose cell, taken toroidally in a grid of 0s and
\* 1s with its own width and height, is alive.
ToroidalSum(g, x, y) ==
    LET H == Len(g)
        W == Len(g[1])
    IN  Cardinality({d \in NeighbourOffsets :
            g[((y + d[2] + H) % H) + 1][((x + d[1] + W) % W) + 1] = 1})

AllDead(g) == \A y \in DOMAIN g : \A x \in DOMAIN g[y] : g[y][x] = 0

\* The grid's live cells are exactly one 2 x 2 block, at any corner and
\* wrapping across the edges.
IsBlock(g, C) ==
    \E bx \in 0..(C.gridWidth - 1), by \in 0..(C.gridHeight - 1) :
        g = GridOf(C, BlockCells(C, bx, by))

resets ==
    \/ clear
    \/ \E g \in RandomGrids(CONFIG) : randomize(g)
    \/ \E name \in NameSet : loadOutcome(name) = "loaded" /\ loadGame(name)

\* C12: clear, randomize and a load of a stored snapshot of CONFIG's
\* dimensions can be taken whether the scheduler runs or not; each leaves
\* isRunning false and no callback armed, and only a start() arms one again;
\* clear and randomize set the generation to 0 and clear leaves every cell
\* dead.
C12_ResetsPause ==
    /\ [](/\ ENABLED clear
          /\ ENABLED (\E g \in RandomGrids(CONFIG) : randomize(g))
          /\ \A name \in NameSet :
                loadOutcome(name) = "loaded" => ENABLED loadGame(name))
    /\ [][resets => (~isRunning' /\ armed' = {})]_vars
    /\ [][(armed = {} /\ armed' # {})
            => (~isRunning /\ isRunning' /\ (togglePlayPause \/ autoStart))]_vars
    /\ [][(clear \/ \E g \in RandomGrids(CONFIG) : randomize(g))
            => generation' = 0]_vars
    /\ [][clear => AllDead(grid')]_vars

\* C12 witness: a snapshot taken at generation 1 has been loaded after the
\* scheduler ran, and the scheduler is paused with nothing armed.
C12_Witness ==
    /\ toast = Toast("success", "cargada")
    /\ generation = 1
    /\ animationId # 0
    /\ ~isRunning
    /\ armed = {}

\* C13: an animate callback that runs while isRunning takes exactly one
\* simulation step and sets lastUpdateTime to its timestamp when
\* (timestamp - lastUpdateTime) * speed >= 1000, and otherwise takes no step
\* and leaves lastUpdateTime alone; so a scheduler step is never less than
\* 1000 / speed ms after the start() or scheduler step that set
\* lastUpdateTime.
C13_Throttle ==
    [][\A id \in armed :
        (isRunning /\ animate(id, MaxGen))
        => IF updateDue(now, lastUpdateTime, speed)
           THEN /\ generation' = generation + 1
                /\ lastUpdateTime' = now
           ELSE UNCHANGED <<grid, generation, lastUpdateTime>>]_vars

\* The transition is a handler that calls pause(): step, clear, randomize
\* or the resize callback.
pausingHandler ==
    \/ step(MaxGen)
    \/ clear
    \/ \E g \in RandomGrids(CONFIG) : randomize(g)
    \/ \E w \in Windows(SchedDims) : resize(w)

\* C14: start() while running (the auto-start timer firing after the user
\* started) leaves isRunning, lastUpdateTime, animationId and the armed
\* callbacks as they were, and pause() while paused (in step, clear,
\* randomize and resize) leaves them as they were too.
C14_Idempotent ==
    [][\/ UNCHANGED <<isRunning, lastUpdateTime, animationId, armed>>
       \/ ~(\/ isRunning /\ autoStart
            \/ ~isRunning /\ pausingHandler)]_vars

\* C14 witness: the auto-start timer fired while the scheduler, started by
\* the user at time 0, was running: lastUpdateTime is still 0 and one
\* callback is armed.
C14_Witness ==
    /\ ~autoStartPending
    /\ isRunning
    /\ now >= autoStartDelay
    /\ lastUpdateTime = 0
    /\ Cardinality(armed) = 1

\* savedGames[name] in a parsed store, or <<>> when there is none.
EntryOf(games, name) ==
    IF IndexOf(games, name) = 0 THEN <<>> ELSE games[IndexOf(games, name)]

\* The transition is a saveGame() whose trimmed input is the name.
savesAs(name) ==
    \E raw \in RawNames \cup NamesRaw : trim(raw) = name /\ saveGameClick(raw)

\* C15: the snapshot stored under a name changes only in a saveGame() of
\* that name or a confirmed deleteGame() of it: no click, touch, step,
\* scheduler tick, clear, randomize or load changes it, before or after the
\* snapshot was loaded into the live grid.
C15_SnapshotsAreCopies ==
    [][\A name \in NameSet :
        EntryOf(getSavedGames, name)' # EntryOf(getSavedGames, name)
        => (savesAs(name) \/ deleteGame(name, TRUE))]_vars

\* C15 witness: the snapshot "a" was loaded and the live grid was edited
\* afterwards; the stored grid is no longer the live one.
C15_Witness ==
    /\ toast = Toast("success", "cargada")
    /\ InStore(<<"a">>)
    /\ Stored(<<"a">>).grid # grid
    /\ Stored(<<"a">>).generation = generation

\* C16: each name has at most one snapshot; a saveGame() under a name
\* leaves that name's snapshot holding the current grid and generation, a
\* saveGame() or confirmed deleteGame() of a name leaves every other name's
\* snapshot as it was, and after a confirmed deleteGame() the name has no
\* snapshot.
C16_LastWriteWins ==
    /\ [](\A i, j \in DOMAIN getSavedGames :
            getSavedGames[i].name = getSavedGames[j].name => i = j)
    /\ [][\A name \in NameSet :
            /\ savesAs(name)
                => /\ EntryOf(getSavedGames, name)' # <<>>
                   /\ EntryOf(getSavedGames, name)'.grid = grid
                   /\ EntryOf(getSavedGames, name)'.generation = generation
            /\ (savesAs(name) \/ deleteGame(name, TRUE))
                => \A other \in NameSet \ {name} :
                    EntryOf(getSavedGames, other)' = EntryOf(getSavedGames, other)
            /\ deleteGame(name, TRUE)
                => EntryOf(getSavedGames, name)' = <<>>]_vars

\* The list holds exactly the names of the store, each once, and no name
\* stands above one with a later date.
Listed(list, games) ==
    /\ {list[i] : i \in DOMAIN list} = {games[i].name : i \in DOMAIN games}
    /\ Len(list) = Len(games)
    /\ \A i, j \in DOMAIN list : i # j => list[i] # list[j]
    /\ \A i, j \in DOMAIN list :
            i < j => dateOf(games, list[i]) >= dateOf(games, list[j])

\* C17: when renderSavedGames() has run (the modal is opened, or a delete
\* was confirmed) the list holds exactly the names in the store, each once,
\* newest date first.
C17_ListingSorted ==
    [][(showLoadModal \/ \E name \in NameSet : deleteGame(name, TRUE))
        => Listed(savedGamesList', getSavedGames')]_vars

\* C17 witness: "a" was saved before "z", and the list shows "z" above "a".
C17_Witness ==
    /\ keys(getSavedGames) = << <<"a">>, <<"z">> >>
    /\ dateOf(getSavedGames, <<"a">>) < dateOf(getSavedGames, <<"z">>)
    /\ savedGamesList = << <<"z">>, <<"a">> >>

\* Every cell of the grid is 0 or 1.
Binary(g) == \A y \in DOMAIN g : \A x \in DOMAIN g[y] : g[y][x] \in {0, 1}

\* g2 is g1 with at most the cell (x, y) changed.
SameButCell(g1, g2, x, y) ==
    /\ SameDims(g1, g2)
    /\ \A r \in DOMAIN g1 : \A c \in DOMAIN g1[r] :
            <<c - 1, r - 1>> # <<x, y>> => g2[r][c] = g1[r][c]

\* The cell (x, y) exists in g and holds v.
Holds(g, x, y, v) ==
    x >= 0 /\ y >= 0 /\ y + 1 <= Len(g) /\ x + 1 <= Len(g[y + 1])
    /\ g[y + 1][x + 1] = v

\* C18: a click at an in-bounds cell flips that cell and a touch sets it
\* alive; an out-of-bounds click or touch changes nothing; either way every
\* other cell, the generation, the running state, lastUpdateTime and the
\* store are as before, and every cell is 0 or 1.
C18_EditsOneCell ==
    [][\A c \in NamesCells :
        (handleCanvasClick(c[1], c[2]) \/ handleTouchMove(c[1], c[2]))
        => /\ UNCHANGED <<generation, isRunning, lastUpdateTime, localStorage>>
           /\ SameButCell(grid, grid', c[1], c[2])
           /\ Binary(grid')
           /\ ~inBounds(c[1], c[2], CONFIG) => grid' = grid
           /\ (inBounds(c[1], c[2], CONFIG) /\ handleCanvasClick(c[1], c[2]))
                => \E v \in {0, 1} : /\ Holds(grid, c[1], c[2], v)
                                     /\ Holds(grid', c[1], c[2], 1 - v)
           /\ (inBounds(c[1], c[2], CONFIG) /\ handleTouchMove(c[1], c[2]))
                => Holds(grid', c[1], c[2], 1)]_vars

\* C19: between handlers at most one animate callback is armed, and one is
\* armed exactly when isRunning is true.
C19_OneLoop == Cardinality(armed) <= 1 /\ (armed # {} <=> isRunning)

\* The last time the clock reaches.
lastTick == MaxTicks * TickMs

\* C20: a scheduler that is running, with a generation below MaxGen and at
\* least one slowest interval of clock left after lastUpdateTime, either
\* stops running or increments the generation.
C20_Progress ==
    \A g \in 0..(MaxGen - 1) :
        (isRunning /\ generation = g /\ lastUpdateTime + msPerSecond <= lastTick)
            ~> (~isRunning \/ generation # g)

====
